---------------------------- MODULE Spec2Model ----------------------------
(***************************************************************************)
(* Model of the INDI DreamFocuser driver (src/dreamfocuser.cpp,            *)
(* src/dreamfocuser.h): the 8-byte frame codec, the synchronous command    *)
(* dispatcher, the device operations with their cached state, the user     *)
(* commands and the polling handler TimerHit.                              *)
(*                                                                         *)
(* Representation.                                                         *)
(*  - A byte is an integer 0..255; a frame (struct DreamFocuserCommand) is *)
(*    the tuple <<M, k, a, b, c, d, n, z>> of its eight bytes.             *)
(*  - A 32-bit word (int32_t or uint32_t) is the integer in                *)
(*    -2^31 .. 2^31-1 with the same bit pattern, so that a conversion      *)
(*    between int32_t and uint32_t keeps the representation and equality   *)
(*    of two words is equality of their bit patterns, as in the code.      *)
(*  - currentTemperature and EnvironmentN[0].value are held in hundredths  *)
(*    of a unit, currentHumidity and EnvironmentN[1].value in tenths; the  *)
(*    values the code computes (short/10. + 273.15, short/10.) are exact   *)
(*    in these units and distinct shorts give distinct floats.             *)
(*  - A handler runs to completion before another one starts               *)
(*    (single-threaded driver), so a handler is one step.                  *)
(***************************************************************************)
EXTENDS Integers, Sequences, FiniteSets, TLC

(***************************************************************************)
(* Program constants                                                       *)
(***************************************************************************)
OpM == 77
OpH == 72
OpP == 80
OpI == 73
OpT == 84
OpW == 87
OpG == 71
OpV == 86
OpR == 82
OpZ == 90
OpUnknownCmd == 33
OpBadChecksum == 63
FrameSize == 8
simulatedPosition == 2000
simulatedTemperature == 2000
simulatedHumidity == 10
MaxPositionN == 300000
KelvinOffset == 27315

(***************************************************************************)
(* Bounds and input samples                                                *)
(***************************************************************************)
\* Cap on the number of pending poll timers.
MaxTimers == 2

IntMax == 2147483646 + 1

\* Values the device reports for P.
PPayloads == {100, 200}
\* Values an uninitialised currentPosition may hold (the constructor does
\* not set it).
InitPositions == {100, IntMax}
\* Targets of absolute moves; 300032 lies outside the default limits.
AbsTargets == {300032}
\* Tick counts of relative moves.
RelTicks == {160}
\* Values setSync receives from ISNewSwitch.
SyncValues == {0}
\* T payloads: humidity 0x0352, temperature 0xFFEC.
TPayloads == {55771116}
\* d of the I and of the W responses.
IPayloads == {0, 1}
WPayloads == {0, 1}
\* d of the W responses the handlers meet.
PollWPayloads == {1}
\* Bytes delivered by a read that ends in an error, and by a short read.
ReadErrLens == {0, 3}
ShortLens == {7}
\* Arguments setPosition and setSync are called with on their own.
SetTargets == {-32, 300032}
\* Opcodes and arguments dispatch_command is called with on its own:
\* V, R and an opcode the switch of send_command does not know ('X').
DispatchOps == {OpV, OpR, 88}
DispatchArgs == {4660}

(***************************************************************************)
(* Bytes and 32-bit words                                                  *)
(***************************************************************************)
\* x[3], x[2], x[1], x[0] of a little-endian uint32_t l
Byte3(l) == (l \div 16777216) % 256
Byte2(l) == (l \div 65536) % 256
Byte1(l) == (l \div 256) % 256
Byte0(l) == l % 256

\* (a<<24) | (b<<16) | (c<<8) | d as a 32-bit int
Word32(a, b, c, d) ==
  (IF a >= 128 THEN a - 256 ELSE a) * 16777216 + b * 65536 + c * 256 + d

\* (short int)((hi<<8) | lo)
Short16(hi, lo) ==
  LET u == hi * 256 + lo IN IF u >= 32768 THEN u - 65536 ELSE u

\* x + y in 32-bit two's-complement arithmetic
Add32(x, y) ==
  LET lo == (x % 65536) + (y % 65536)
      hi == (x \div 65536) + (y \div 65536) + (lo \div 65536)
      h  == ((hi + 32768) % 65536) - 32768
  IN  h * 65536 + (lo % 65536)

\* -x in 32-bit two's-complement arithmetic:  (int32_t)ticks * -1
Neg32(x) == IF x = -IntMax - 1 THEN x ELSE -x

(***************************************************************************)
(* Frame codec                                                             *)
(***************************************************************************)
\* The checksum without the start byte M
calculate_checksum_withoutM(c) ==
  (c[2] + c[3] + c[4] + c[5] + c[6] + c[7]) % 256

calculate_checksum(c) ==
  (c[1] + c[2] + c[3] + c[4] + c[5] + c[6] + c[7]) % 256

\* The payload bytes with the argument of M and Z in little-endian order
PayloadBytes_littleEndian(k, l) ==
  IF k \in {OpM, OpZ} THEN <<Byte0(l), Byte1(l), Byte2(l), Byte3(l)>>
  ELSE IF k \in {OpH, OpP, OpI, OpT, OpW, OpG, OpV} THEN <<0, 0, 0, 0>>
  ELSE IF k = OpR THEN <<0, 0, 0, Byte0(l)>>
  ELSE <<>>

\* The payload bytes send_command fills in for opcode k and argument l;
\* <<>> for an opcode the switch does not know.
PayloadBytes(k, l) ==
  IF k \in {OpM, OpZ} THEN <<Byte3(l), Byte2(l), Byte1(l), Byte0(l)>>
  ELSE IF k \in {OpH, OpP, OpI, OpT, OpW, OpG, OpV} THEN <<0, 0, 0, 0>>
  ELSE IF k = OpR THEN <<0, 0, 0, Byte0(l)>>
  ELSE <<>>

\* The request frame c that send_command builds.
RequestFrame(k, l) ==
  LET p == PayloadBytes(k, l)
      c == <<OpM, k, p[1], p[2], p[3], p[4], 0, 0>>
  IN  [c EXCEPT ![8] = calculate_checksum(c)]

\* The 32-bit payload of a frame
Payload(f) == Word32(f[3], f[4], f[5], f[6])

(***************************************************************************)
(* Transport behaviour during one exchange                                 *)
(*   w : tty_write returned TTY_OK                                         *)
(*   r : "ok" / "err", what tty_read returned ("none": not called)         *)
(*   n : nbytes_read                                                       *)
(*   f : the eight bytes on the wire                                       *)
(***************************************************************************)
\* A well-formed device frame with opcode k and payload p
DeviceFrame(k, p) ==
  LET c == <<OpM, k, Byte3(p), Byte2(p), Byte1(p), Byte0(p), 0, 0>>
  IN  [c EXCEPT ![8] = calculate_checksum(c)]

\* The same frame with a wrong checksum byte
Corrupt(f) == [f EXCEPT ![8] = (f[8] + 1) % 256]

\* A payload different from l
OtherPayload(l) == IF l % 2 = 0 THEN l + 1 ELSE l - 1

\* An opcode different from k that is neither '!' nor '?'
OtherOp(k) == IF k = OpP THEN OpI ELSE OpP

\* Payloads a device answers request (k, l) with
RespPayloads(k, l) ==
  IF k = OpP THEN PPayloads
  ELSE IF k = OpI THEN IPayloads
  ELSE IF k = OpW THEN WPayloads
  ELSE IF k = OpT THEN TPayloads
  ELSE IF k \in {OpM, OpZ} THEN {l, OtherPayload(l)}
  ELSE {0}

\* The payload the protocol prescribes for the answer to (k, l), where it
\* prescribes one
FirstPayload(k, l) == IF k \in {OpM, OpZ} THEN l ELSE 0

\* Frames that can arrive in answer to request (k, l)
Frames(k, l) ==
  {DeviceFrame(k, p) : p \in RespPayloads(k, l)}
    \cup {DeviceFrame(OpUnknownCmd, 0), DeviceFrame(OpBadChecksum, 0),
          DeviceFrame(OtherOp(k), FirstPayload(k, l)),
          Corrupt(DeviceFrame(k, FirstPayload(k, l))),
          Corrupt(DeviceFrame(OpUnknownCmd, 0))}

NoFrame == <<0, 0, 0, 0, 0, 0, 0, 0>>

\* No transport behaviour (the exchange is not made, or simulated)
NoIO == [w |-> TRUE, r |-> "none", n |-> 0, f |-> NoFrame]

WriteFails == [w |-> FALSE, r |-> "none", n |-> 0, f |-> NoFrame]

ReadFails(i, g) == [w |-> TRUE, r |-> "err", n |-> i, f |-> g]

Reads(i, g) == [w |-> TRUE, r |-> "ok", n |-> i, f |-> g]

\* Every kind of behaviour: the write fails; the read fails; the read is
\* short; eight bytes arrive.
IOs(k, l) ==
  {WriteFails}
    \cup {ReadFails(i, DeviceFrame(k, FirstPayload(k, l))) : i \in ReadErrLens}
    \cup {Reads(i, DeviceFrame(k, FirstPayload(k, l))) : i \in ShortLens}
    \cup {Reads(FrameSize, g) : g \in Frames(k, l)}

\* Payloads of the well-formed answers the handlers meet
PollPayloads(k) ==
  IF k = OpP THEN PPayloads
  ELSE IF k = OpI THEN IPayloads
  ELSE IF k = OpW THEN PollWPayloads
  ELSE TPayloads

\* The behaviours the exchanges of Connect and TimerHit meet: a failed
\* write, a failed read, or a well-formed answer.
PollIOs(k) ==
  {WriteFails, ReadFails(0, NoFrame)}
    \cup {Reads(FrameSize, DeviceFrame(k, p)) : p \in PollPayloads(k)}

\* The behaviours the exchange of a user command meets: the device refuses
\* the command ('!'), or it answers with the echo.
CommandIOs(k, l) ==
  {Reads(FrameSize, DeviceFrame(OpUnknownCmd, 0)),
   Reads(FrameSize, DeviceFrame(k, FirstPayload(k, l)))}

\* No transport is involved in simulation.
PollTransport(sim, k) == IF sim THEN {NoIO} ELSE PollIOs(k)
CommandTransport(sim, k, l) == IF sim THEN {NoIO} ELSE CommandIOs(k, l)
\* The behaviours a single operation is called under
AnyTransport(sim, k, l) == IF sim THEN {NoIO} ELSE IOs(k, l)

(***************************************************************************)
(* Command dispatcher                                                      *)
(***************************************************************************)
\* F applied to the value of v, which is computed once
Let(v, F(_)) == CHOOSE y \in {F(x) : x \in {v}} : TRUE

\* send_command: [ret, cr (currentResponse afterwards), out (frames issued),
\*                wire (handed to tty_write)]
send_command(k, l, sim, cr, io) ==
  IF PayloadBytes(k, l) = <<>>
  THEN [ret |-> FALSE, cr |-> cr, out |-> <<>>, wire |-> FALSE]
  ELSE Let(RequestFrame(k, l), LAMBDA c :
         IF sim
         THEN [ret |-> TRUE,
               cr |-> [cr EXCEPT ![2] = k, ![7] = 0, ![8] = c[8]],
               out |-> <<c>>, wire |-> FALSE]
         ELSE [ret |-> io.w, cr |-> cr, out |-> <<c>>, wire |-> TRUE])

\* tty_read into currentResponse: the first io.n bytes are overwritten
ReadByte(cr, io, i) == IF i <= io.n THEN io.f[i] ELSE cr[i]

ReadInto(cr, io) ==
  <<ReadByte(cr, io, 1), ReadByte(cr, io, 2), ReadByte(cr, io, 3), ReadByte(cr, io, 4),
    ReadByte(cr, io, 5), ReadByte(cr, io, 6), ReadByte(cr, io, 7), ReadByte(cr, io, 8)>>

\* read_response without the checksum test
read_response_noChecksum(sim, cr, io) ==
  IF sim THEN [ret |-> TRUE, cr |-> cr, err |-> "none"]
  ELSE Let(ReadInto(cr, io), LAMBDA got :
         IF io.r # "ok" THEN [ret |-> FALSE, cr |-> got, err |-> "IO_READ"]
         ELSE IF io.n # FrameSize THEN [ret |-> FALSE, cr |-> got, err |-> "MALFORMED"]
         ELSE IF got[2] = OpUnknownCmd
         THEN [ret |-> FALSE, cr |-> got, err |-> "DEVICE_UNKNOWN_CMD"]
         ELSE IF got[2] = OpBadChecksum
         THEN [ret |-> FALSE, cr |-> got, err |-> "DEVICE_BAD_CHECKSUM"]
         ELSE [ret |-> TRUE, cr |-> got, err |-> "none"])

\* read_response that looks at the opcode before the checksum
read_response_sentinelFirst(sim, cr, io) ==
  IF sim THEN [ret |-> TRUE, cr |-> cr, err |-> "none"]
  ELSE Let(ReadInto(cr, io), LAMBDA got :
         IF io.r # "ok" THEN [ret |-> FALSE, cr |-> got, err |-> "IO_READ"]
         ELSE IF io.n # FrameSize THEN [ret |-> FALSE, cr |-> got, err |-> "MALFORMED"]
         ELSE IF got[2] = OpUnknownCmd
         THEN [ret |-> FALSE, cr |-> got, err |-> "DEVICE_UNKNOWN_CMD"]
         ELSE IF got[2] = OpBadChecksum
         THEN [ret |-> FALSE, cr |-> got, err |-> "DEVICE_BAD_CHECKSUM"]
         ELSE IF calculate_checksum(got) # got[8]
         THEN [ret |-> FALSE, cr |-> got, err |-> "BAD_CHECKSUM"]
         ELSE [ret |-> TRUE, cr |-> got, err |-> "none"])

\* read_response: [ret, cr, err]; err names the test that made it return
\* false (the error it logs): tty_read failed, nbytes_read is not 8, the
\* checksum is wrong, the device answered '!', the device answered '?'.
read_response(sim, cr, io) ==
  IF sim THEN [ret |-> TRUE, cr |-> cr, err |-> "none"]
  ELSE Let(ReadInto(cr, io), LAMBDA got :
         IF io.r # "ok" THEN [ret |-> FALSE, cr |-> got, err |-> "IO_READ"]
         ELSE IF io.n # FrameSize THEN [ret |-> FALSE, cr |-> got, err |-> "MALFORMED"]
         ELSE IF calculate_checksum(got) # got[8]
         THEN [ret |-> FALSE, cr |-> got, err |-> "BAD_CHECKSUM"]
         ELSE IF got[2] = OpUnknownCmd
         THEN [ret |-> FALSE, cr |-> got, err |-> "DEVICE_UNKNOWN_CMD"]
         ELSE IF got[2] = OpBadChecksum
         THEN [ret |-> FALSE, cr |-> got, err |-> "DEVICE_BAD_CHECKSUM"]
         ELSE [ret |-> TRUE, cr |-> got, err |-> "none"])

\* dispatch_command: [ret, cr, out, wire, read (read_response was called),
\*                    err (what made it return false)]
dispatch_command(k, l, sim, cr, io) ==
  Let(send_command(k, l, sim, cr, io), LAMBDA s :
    IF s.ret
    THEN Let(read_response(sim, s.cr, io), LAMBDA r :
           [ret |-> r.ret /\ r.cr[2] = k, cr |-> r.cr, out |-> s.out,
            wire |-> s.wire, read |-> TRUE,
            err |-> IF ~r.ret THEN r.err
                    ELSE IF r.cr[2] # k THEN "OPCODE_MISMATCH" ELSE "none"])
    ELSE [ret |-> FALSE, cr |-> s.cr, out |-> s.out, wire |-> s.wire,
          read |-> FALSE, err |-> IF s.wire THEN "IO_WRITE" ELSE "ENCODE"])

(***************************************************************************)
(* Device operations.  m is the driver's memory:                           *)
(*   [currentPosition, isMoving, isAbsolute, currentTemperature,           *)
(*    currentHumidity, currentResponse]                                    *)
(* Each operation yields [ret, m, x] with x the sequence of the exchanges  *)
(* it performed.                                                           *)
(***************************************************************************)
\* What is recorded of one call of dispatch_command
Exchange(k, d, io) ==
  [k |-> k, ret |-> d.ret, out |-> d.out, wire |-> d.wire,
   w |-> d.wire /\ io.w,
   r |-> IF d.wire /\ d.read THEN io.r ELSE "none",
   n |-> IF d.wire /\ d.read THEN io.n ELSE 0,
   err |-> d.err]

\* getTemperature that leaves the temperature in degrees Celsius
getTemperature_celsius(m, sim, io) ==
  IF sim
  THEN [ret |-> TRUE,
        m |-> [m EXCEPT !.currentTemperature = simulatedTemperature,
                        !.currentHumidity = simulatedHumidity],
        x |-> <<>>]
  ELSE Let(dispatch_command(OpT, 0, sim, m.currentResponse, io), LAMBDA d :
         IF d.ret
         THEN [ret |-> TRUE,
               m |-> [m EXCEPT !.currentResponse = d.cr,
                               !.currentTemperature =
                                  Short16(d.cr[5], d.cr[6]) * 10,
                               !.currentHumidity = Short16(d.cr[3], d.cr[4])],
               x |-> <<Exchange(OpT, d, io)>>]
         ELSE [ret |-> FALSE, m |-> [m EXCEPT !.currentResponse = d.cr],
               x |-> <<Exchange(OpT, d, io)>>])

getTemperature(m, sim, io) ==
  IF sim
  THEN [ret |-> TRUE,
        m |-> [m EXCEPT !.currentTemperature = simulatedTemperature,
                        !.currentHumidity = simulatedHumidity],
        x |-> <<>>]
  ELSE Let(dispatch_command(OpT, 0, sim, m.currentResponse, io), LAMBDA d :
         IF d.ret
         THEN [ret |-> TRUE,
               m |-> [m EXCEPT !.currentResponse = d.cr,
                               !.currentTemperature =
                                  Short16(d.cr[5], d.cr[6]) * 10 + KelvinOffset,
                               !.currentHumidity = Short16(d.cr[3], d.cr[4])],
               x |-> <<Exchange(OpT, d, io)>>]
         ELSE [ret |-> FALSE, m |-> [m EXCEPT !.currentResponse = d.cr],
               x |-> <<Exchange(OpT, d, io)>>])

\* getStatus from its W exchange on, the I exchange having yielded d1 and
\* the memory m1
getStatus_W(m1, sim, d1, io1, io2) ==
  Let(dispatch_command(OpW, 0, sim, m1.currentResponse, io2), LAMBDA d2 :
    IF d2.ret
    THEN [ret |-> TRUE,
          m |-> [m1 EXCEPT !.currentResponse = d2.cr,
                           !.isAbsolute = (d2.cr[6] = 1)],
          x |-> <<Exchange(OpI, d1, io1), Exchange(OpW, d2, io2)>>]
    ELSE [ret |-> FALSE, m |-> [m1 EXCEPT !.currentResponse = d2.cr],
          x |-> <<Exchange(OpI, d1, io1), Exchange(OpW, d2, io2)>>])

\* io1 is the transport behaviour during the I exchange, io2 during W
getStatus(m, sim, io1, io2) ==
  IF sim
  THEN [ret |-> TRUE, m |-> m, x |-> <<>>]
  ELSE Let(dispatch_command(OpI, 0, sim, m.currentResponse, io1), LAMBDA d1 :
         IF d1.ret
         THEN Let([m EXCEPT !.currentResponse = d1.cr, !.isMoving = (d1.cr[6] = 1)],
                  LAMBDA m1 : getStatus_W(m1, sim, d1, io1, io2))
         ELSE [ret |-> FALSE, m |-> [m EXCEPT !.currentResponse = d1.cr],
               x |-> <<Exchange(OpI, d1, io1)>>])

getPosition(m, sim, io) ==
  IF sim
  THEN [ret |-> TRUE, m |-> [m EXCEPT !.currentPosition = simulatedPosition],
        x |-> <<>>]
  ELSE Let(dispatch_command(OpP, 0, sim, m.currentResponse, io), LAMBDA d :
         IF d.ret
         THEN [ret |-> TRUE,
               m |-> [m EXCEPT !.currentResponse = d.cr,
                               !.currentPosition = Payload(d.cr)],
               x |-> <<Exchange(OpP, d, io)>>]
         ELSE [ret |-> FALSE, m |-> [m EXCEPT !.currentResponse = d.cr],
               x |-> <<Exchange(OpP, d, io)>>])

\* setPosition that takes the commanded target for the position reached
setPosition_predictsPosition(m, sim, position, io) ==
  Let(dispatch_command(OpM, position, sim, m.currentResponse, io), LAMBDA d :
    [ret |-> d.ret /\ Payload(d.cr) = position,
     m |-> IF d.ret /\ Payload(d.cr) = position
           THEN [m EXCEPT !.currentResponse = d.cr, !.currentPosition = position]
           ELSE [m EXCEPT !.currentResponse = d.cr],
     x |-> <<Exchange(OpM, d, io)>>])

setPosition(m, sim, position, io) ==
  Let(dispatch_command(OpM, position, sim, m.currentResponse, io), LAMBDA d :
    [ret |-> d.ret /\ Payload(d.cr) = position,
     m |-> [m EXCEPT !.currentResponse = d.cr],
     x |-> <<Exchange(OpM, d, io)>>])

\* setSync that does not compare the echoed payload
setSync_noEcho(m, sim, position, io) ==
  Let(dispatch_command(OpZ, position, sim, m.currentResponse, io), LAMBDA d :
    [ret |-> d.ret,
     m |-> [m EXCEPT !.currentResponse = d.cr],
     x |-> <<Exchange(OpZ, d, io)>>])

setSync(m, sim, position, io) ==
  Let(dispatch_command(OpZ, position, sim, m.currentResponse, io), LAMBDA d :
    [ret |-> d.ret /\ Payload(d.cr) = position,
     m |-> [m EXCEPT !.currentResponse = d.cr],
     x |-> <<Exchange(OpZ, d, io)>>])

setPark(m, sim, io) ==
  Let(dispatch_command(OpG, 0, sim, m.currentResponse, io), LAMBDA d :
    [ret |-> d.ret, m |-> [m EXCEPT !.currentResponse = d.cr],
     x |-> <<Exchange(OpG, d, io)>>])

\* DreamFocuser::AbortFocuser as a function of the memory
abortFocuser(m, sim, io) ==
  Let(dispatch_command(OpH, 0, sim, m.currentResponse, io), LAMBDA d :
    [ret |-> d.ret, m |-> [m EXCEPT !.currentResponse = d.cr],
     x |-> <<Exchange(OpH, d, io)>>])

(***************************************************************************)
(* State                                                                   *)
(*                                                                         *)
(* Of the driver's properties the model keeps the states the handlers      *)
(* decide on: FocusAbsPosNP.s, FocusRelPosNP.s, StatusSP.s, EnvironmentNP.s *)
(* and the values of EnvironmentN.  The state a handler gives SyncSP or    *)
(* ParkSP is the result recorded for the handler.  MaxPositionN keeps the  *)
(* value initProperties gives it.  The simulation flag of the framework is *)
(* chosen before the driver runs and kept.                                 *)
(***************************************************************************)
VARIABLES
  \* framework flags and the poll timers pending
  connected, simulation, timers,
  \* members of DreamFocuser
  currentPosition, isMoving, isAbsolute, currentTemperature, currentHumidity,
  currentResponse,
  \* properties
  FocusAbsPosNP_s, FocusRelPosNP_s, StatusSP_s, EnvironmentNP_s, EnvironmentN,
  \* observation of the run:
  \*   last    the handler or operation last run, its argument and its result
  \*   xlog    the exchanges it made, in order
  \*   pHist   the successful P reads so far
  \*   scen    the progress through the three-tick polling scenario
  \*   emitted whether it sent FocusAbsPosNP to the client
  last, xlog, pHist, scen, emitted

driver == <<currentPosition, isMoving, isAbsolute, currentTemperature,
            currentHumidity, currentResponse>>
props == <<FocusAbsPosNP_s, FocusRelPosNP_s, StatusSP_s, EnvironmentNP_s, EnvironmentN>>
observed == <<last, xlog, pHist, scen, emitted>>
vars == <<connected, simulation, timers, driver, props, observed>>

Mem ==
  [currentPosition |-> currentPosition, isMoving |-> isMoving,
   isAbsolute |-> isAbsolute, currentTemperature |-> currentTemperature,
   currentHumidity |-> currentHumidity, currentResponse |-> currentResponse]

SetMem(m) ==
  /\ currentPosition' = m.currentPosition
  /\ isMoving' = m.isMoving
  /\ isAbsolute' = m.isAbsolute
  /\ currentTemperature' = m.currentTemperature
  /\ currentHumidity' = m.currentHumidity
  /\ currentResponse' = m.currentResponse

\* The cached device state
Cache ==
  <<currentPosition, isMoving, isAbsolute, currentTemperature, currentHumidity>>

Bool(b) == IF b THEN "true" ELSE "false"

IPState(b) == IF b THEN "OK" ELSE "ALERT"

NoScen == [n |-> 0, hist |-> <<>>, start |-> 0]

NoPReads == [seen |-> FALSE, last |-> 0, delta |-> FALSE]

Handler(op, ret, arg, dir) == [op |-> op, ret |-> ret, arg |-> arg, dir |-> dir]

\* The P reads seen so far, after a getPosition that yielded r
PReads(h, r) ==
  IF r.x # <<>> /\ r.ret
  THEN [seen |-> TRUE, last |-> r.m.currentPosition,
        delta |-> h.seen /\ h.last # r.m.currentPosition]
  ELSE h

(***************************************************************************)
(* Construction: DreamFocuser::DreamFocuser and initProperties             *)
(***************************************************************************)
\* currentTemperature and currentHumidity are not initialised; the code
\* never reads them before getTemperature has written them.
InitFloats == {0}

\* currentResponse: M = 'M' and n = 0 by their member initialisers, the other
\* bytes are not initialised.
InitResponses == {<<OpM, 0, 0, 0, 0, 0, 0, 0>>, <<OpM, 0, 255, 255, 255, 224, 0, 0>>}

Constructed ==
  /\ connected = FALSE
  /\ simulation \in BOOLEAN
  /\ timers = 0
  /\ currentPosition \in InitPositions
  /\ isMoving = FALSE
  /\ isAbsolute = FALSE
  /\ currentTemperature \in InitFloats
  /\ currentHumidity \in InitFloats
  /\ currentResponse \in InitResponses
  /\ FocusAbsPosNP_s = "IDLE"
  /\ FocusRelPosNP_s = "IDLE"
  /\ StatusSP_s = "IDLE"
  /\ EnvironmentNP_s = "IDLE"
  /\ EnvironmentN = <<0, 0>>

Init ==
  /\ Constructed
  /\ last = Handler("none", "none", 0, "none")
  /\ xlog = <<>>
  /\ pHist = NoPReads
  /\ scen = NoScen
  /\ emitted = FALSE

(***************************************************************************)
(* Helpers of the handlers                                                 *)
(***************************************************************************)
\* The transport behaviours of an exchange that is made only if `made`
After(made, ios) == IF made THEN ios ELSE {NoIO}

\* SetTimer(POLLMS)
SetTimer(t) == t + 1

\* What a handler of a single device operation that yielded r records
Observe(h, r) ==
  /\ last' = h
  /\ xlog' = r.x
  /\ scen' = NoScen

\* The motion step that takes FocusAbsPosNP.s out of IDLE
StatusAbs_leavesIdle(moving, abs) ==
  IF moving THEN "BUSY" ELSE "OK"

\* TimerHit, lines 576-588: FocusAbsPosNP.s after a successful getStatus
StatusAbs(moving, abs) ==
  IF moving THEN "BUSY" ELSE IF abs # "IDLE" THEN "OK" ELSE abs

\* The position step without the return to OK when the position is unchanged
PositionAbs_staysBusy(abs, called, ok, moved) ==
  IF ~called THEN abs
  ELSE IF ~ok THEN "ALERT"
  ELSE IF moved THEN "BUSY" ELSE abs

\* TimerHit, lines 605-625: FocusAbsPosNP.s after the position step;
\* called: getPosition was called, ok: its result, moved: oldPosition != currentPosition
PositionAbs(abs, called, ok, moved) ==
  IF ~called THEN abs
  ELSE IF ~ok THEN "ALERT"
  ELSE IF moved THEN "BUSY" ELSE "OK"

\* TimerHit, line 597: EnvironmentNP.s after getTemperature returned ok
EnvironmentState(ok, published, now) ==
  IF ok THEN (IF published # now THEN "BUSY" ELSE "OK") ELSE "ALERT"

\* TimerHit, line 630: whether FocusAbsPosNP is sent to the client
AbsPosChanged(oldS, oldP, newS, newP) == oldS # newS \/ oldP # newP

\* The scenario of three consecutive ticks with I responses d = 1, 1, 0 and
\* P responses 100, 200, 200
ScenMoving == <<TRUE, TRUE, FALSE>>
ScenPosition == <<100, 200, 200>>

\* Progress through the scenario after a tick that read `moving` by I and
\* `pos` by P, all reads of the tick having succeeded, starting from the
\* cached position `old` and ending with status `abs`
ScenStep(sc, moving, pos, old, abs) ==
  IF sc.n \in 1..2 /\ moving = ScenMoving[sc.n + 1] /\ pos = ScenPosition[sc.n + 1]
  THEN [n |-> sc.n + 1, hist |-> Append(sc.hist, abs), start |-> sc.start]
  ELSE IF moving = ScenMoving[1] /\ pos = ScenPosition[1]
  THEN [n |-> 1, hist |-> <<abs>>, start |-> old]
  ELSE NoScen

(***************************************************************************)
(* Connect and Disconnect                                                  *)
(***************************************************************************)
\* opened is the result of tty_connect.
Connect ==
  /\ ~connected
  /\ timers < MaxTimers
  /\ \E opened \in (IF simulation THEN {TRUE} ELSE BOOLEAN) :
     \E io1 \in PollTransport(simulation \/ ~opened, OpI) :
     \E io2 \in After(~simulation /\ opened /\ getStatus(Mem, FALSE, io1, NoIO).x[1].ret,
                    PollTransport(simulation, OpW)) :
     \E r \in {IF simulation
               THEN [ret |-> TRUE,
                     m |-> [Mem EXCEPT !.currentPosition = simulatedPosition],
                     x |-> <<>>]
               ELSE IF ~opened
               THEN [ret |-> FALSE, m |-> Mem, x |-> <<>>]
               ELSE getStatus(Mem, simulation, io1, io2)} :
           /\ SetMem(r.m)
           /\ connected' = r.ret
           /\ timers' = IF r.ret THEN SetTimer(timers) ELSE timers
           /\ Observe(Handler("Connect", Bool(r.ret), 0, "none"), r)
           /\ emitted' = FALSE
           /\ UNCHANGED <<simulation, props, pHist>>

\* tty_disconnect(fd), as recorded among the transport calls of a handler
tty_disconnect ==
  [k |-> 0, ret |-> TRUE, out |-> <<>>, wire |-> FALSE, w |-> FALSE,
   r |-> "none", n |-> 0, err |-> "none"]

\* Disconnect that gives up when the abort fails
Disconnect_closesOnlyAfterAbort ==
  /\ connected
  /\ \E io \in CommandTransport(simulation, OpH, 0) :
       \E r \in {abortFocuser(Mem, simulation, io)} :
       /\ SetMem(r.m)
       /\ connected' = ~r.ret
       /\ Observe(Handler("Disconnect", Bool(r.ret), 0, "none"),
                  IF r.ret THEN [r EXCEPT !.x = r.x \o <<tty_disconnect>>] ELSE r)
       /\ emitted' = FALSE
       /\ UNCHANGED <<simulation, timers, props, pHist>>

\* Disconnect: AbortFocuser, then tty_disconnect; the framework clears the
\* connection flag since Disconnect returns true.
Disconnect ==
  /\ connected
  /\ \E io \in CommandTransport(simulation, OpH, 0) :
       \E r \in {abortFocuser(Mem, simulation, io)} :
       /\ SetMem(r.m)
       /\ connected' = FALSE
       /\ Observe(Handler("Disconnect", "true", 0, "none"),
                  [r EXCEPT !.x = r.x \o <<tty_disconnect>>])
       /\ emitted' = FALSE
       /\ UNCHANGED <<simulation, timers, props, pHist>>

(***************************************************************************)
(* User commands                                                           *)
(***************************************************************************)
MoveAbsFocuser(ticks) ==
  /\ connected
  /\ \E io \in CommandTransport(simulation, OpM, ticks) :
       \E r \in {setPosition(Mem, simulation, ticks, io)} :
       /\ SetMem(r.m)
       /\ FocusAbsPosNP_s' = IF r.ret THEN "OK" ELSE FocusAbsPosNP_s
       /\ Observe(Handler("MoveAbsFocuser", IPState(r.ret), ticks, "none"), r)
       /\ emitted' = r.ret
       /\ UNCHANGED <<connected, simulation, timers, FocusRelPosNP_s,
                      StatusSP_s, EnvironmentNP_s, EnvironmentN, pHist>>

\* finalTicks without the direction
FinalTicks_outwardOnly(pos, dir, ticks) == Add32(pos, ticks)

\* int32_t finalTicks = currentPosition + ((int32_t)ticks * (dir == FOCUS_INWARD ? -1 : 1))
FinalTicks(pos, dir, ticks) ==
  Add32(pos, IF dir = "INWARD" THEN Neg32(ticks) ELSE ticks)

MoveRelFocuser(dir, ticks) ==
  /\ connected
  /\ LET finalTicks == FinalTicks(currentPosition, dir, ticks) IN
     \E io \in CommandTransport(simulation, OpM, finalTicks) :
       \E r \in {setPosition(Mem, simulation, finalTicks, io)} :
       /\ SetMem(r.m)
       /\ FocusRelPosNP_s' = IF r.ret THEN "OK" ELSE FocusRelPosNP_s
       /\ Observe(Handler("MoveRelFocuser", IPState(r.ret), ticks, dir), r)
       /\ emitted' = FALSE
       /\ UNCHANGED <<connected, simulation, timers, FocusAbsPosNP_s,
                      StatusSP_s, EnvironmentNP_s, EnvironmentN, pHist>>

\* ISNewSwitch for SyncSP; position is the argument setSync receives, the
\* result recorded is the state given to SyncSP.
ISNewSwitch_Sync(position) ==
  /\ connected
  /\ \E io \in CommandTransport(simulation, OpZ, position) :
       \E r \in {setSync(Mem, simulation, position, io)} :
       /\ SetMem(r.m)
       /\ FocusAbsPosNP_s' = IF r.ret THEN "OK" ELSE FocusAbsPosNP_s
       /\ Observe(Handler("ISNewSwitch_Sync", IPState(r.ret), position, "none"), r)
       /\ emitted' = r.ret
       /\ UNCHANGED <<connected, simulation, timers, FocusRelPosNP_s,
                      StatusSP_s, EnvironmentNP_s, EnvironmentN, pHist>>

\* ISNewSwitch for ParkSP; the result recorded is the state given to ParkSP.
ISNewSwitch_Park ==
  /\ connected
  /\ \E io \in CommandTransport(simulation, OpG, 0) :
       \E r \in {setPark(Mem, simulation, io)} :
       /\ SetMem(r.m)
       /\ FocusAbsPosNP_s' = IF r.ret THEN "OK" ELSE FocusAbsPosNP_s
       /\ Observe(Handler("ISNewSwitch_Park", IPState(r.ret), 0, "none"), r)
       /\ emitted' = r.ret
       /\ UNCHANGED <<connected, simulation, timers, FocusRelPosNP_s,
                      StatusSP_s, EnvironmentNP_s, EnvironmentN, pHist>>

AbortFocuser ==
  /\ connected
  /\ \E io \in CommandTransport(simulation, OpH, 0) :
       \E r \in {abortFocuser(Mem, simulation, io)} :
       /\ SetMem(r.m)
       /\ Observe(Handler("AbortFocuser", Bool(r.ret), 0, "none"), r)
       /\ emitted' = FALSE
       /\ UNCHANGED <<connected, simulation, timers, props, pHist>>

(***************************************************************************)
(* TimerHit                                                                *)
(***************************************************************************)
\* TimerHit that raises every status when getStatus fails
TimerBody_allAlert(s, sim, oldS, oldP, envS, envN, sc, io3, io4) ==
  IF ~s.ret
  THEN [m |-> s.m, abs |-> "ALERT", status |-> "ALERT", envS |-> "ALERT",
        envN |-> envN, x |-> s.x, p |-> [ret |-> FALSE, m |-> s.m, x |-> <<>>],
        scen |-> NoScen]
  ELSE Let(getTemperature(s.m, sim, io3), LAMBDA t :
       Let(StatusAbs(s.m.isMoving, oldS), LAMBDA abs1 :
       Let(IF abs1 # "IDLE" THEN getPosition(t.m, sim, io4)
           ELSE [ret |-> FALSE, m |-> t.m, x |-> <<>>], LAMBDA p :
       Let(PositionAbs(abs1, abs1 # "IDLE", p.ret, oldP # p.m.currentPosition),
           LAMBDA abs2 :
         [m |-> p.m, abs |-> abs2, status |-> "OK",
          envS |-> EnvironmentState(t.ret, envN,
                     <<t.m.currentTemperature, t.m.currentHumidity>>),
          envN |-> IF t.ret THEN <<t.m.currentTemperature, t.m.currentHumidity>>
                   ELSE envN,
          x |-> s.x \o t.x \o p.x, p |-> p,
          scen |-> IF ~sim /\ t.ret /\ abs1 # "IDLE" /\ p.ret
                   THEN ScenStep(sc, s.m.isMoving, p.m.currentPosition, oldP, abs2)
                   ELSE NoScen]))))

\* TimerHit that skips the position step when getTemperature failed
TimerBody_skipsPositionAfterAlert(s, sim, oldS, oldP, envS, envN, sc, io3, io4) ==
  IF ~s.ret
  THEN [m |-> s.m, abs |-> oldS, status |-> "ALERT", envS |-> envS, envN |-> envN,
        x |-> s.x, p |-> [ret |-> FALSE, m |-> s.m, x |-> <<>>], scen |-> NoScen]
  ELSE Let(getTemperature(s.m, sim, io3), LAMBDA t :
       Let(StatusAbs(s.m.isMoving, oldS), LAMBDA abs1 :
       Let(IF abs1 # "IDLE" /\ t.ret THEN getPosition(t.m, sim, io4)
           ELSE [ret |-> FALSE, m |-> t.m, x |-> <<>>], LAMBDA p :
       Let(PositionAbs(abs1, abs1 # "IDLE" /\ t.ret, p.ret, oldP # p.m.currentPosition),
           LAMBDA abs2 :
         [m |-> p.m, abs |-> abs2, status |-> "OK",
          envS |-> EnvironmentState(t.ret, envN,
                     <<t.m.currentTemperature, t.m.currentHumidity>>),
          envN |-> IF t.ret THEN <<t.m.currentTemperature, t.m.currentHumidity>>
                   ELSE envN,
          x |-> s.x \o t.x \o p.x, p |-> p,
          scen |-> IF ~sim /\ t.ret /\ abs1 # "IDLE" /\ p.ret
                   THEN ScenStep(sc, s.m.isMoving, p.m.currentPosition, oldP, abs2)
                   ELSE NoScen]))))

\* TimerHit, lines 570-626, once getStatus has returned s: the new memory
\* and properties, the exchanges made and the scenario progress.
\* oldS, oldP are oldAbsStatus and oldPosition; io3 is the transport
\* behaviour during the T exchange, io4 during P.
TimerBody(s, sim, oldS, oldP, envS, envN, sc, io3, io4) ==
  IF ~s.ret
  THEN [m |-> s.m, abs |-> oldS, status |-> "ALERT", envS |-> envS, envN |-> envN,
        x |-> s.x, p |-> [ret |-> FALSE, m |-> s.m, x |-> <<>>], scen |-> NoScen]
  ELSE Let(getTemperature(s.m, sim, io3), LAMBDA t :
       Let(StatusAbs(s.m.isMoving, oldS), LAMBDA abs1 :
       Let(IF abs1 # "IDLE" THEN getPosition(t.m, sim, io4)
           ELSE [ret |-> FALSE, m |-> t.m, x |-> <<>>], LAMBDA p :
       Let(PositionAbs(abs1, abs1 # "IDLE", p.ret, oldP # p.m.currentPosition),
           LAMBDA abs2 :
         [m |-> p.m, abs |-> abs2, status |-> "OK",
          envS |-> EnvironmentState(t.ret, envN,
                     <<t.m.currentTemperature, t.m.currentHumidity>>),
          envN |-> IF t.ret THEN <<t.m.currentTemperature, t.m.currentHumidity>>
                   ELSE envN,
          x |-> s.x \o t.x \o p.x, p |-> p,
          scen |-> IF ~sim /\ t.ret /\ abs1 # "IDLE" /\ p.ret
                   THEN ScenStep(sc, s.m.isMoving, p.m.currentPosition, oldP, abs2)
                   ELSE NoScen]))))

\* A poll timer fires.
TimerHit ==
  /\ timers > 0
  /\ IF ~connected
     THEN /\ timers' = timers - 1
          /\ last' = Handler("TimerHit", "disconnected", 0, "none")
          /\ xlog' = <<>>
          /\ scen' = NoScen
          /\ emitted' = FALSE
          /\ UNCHANGED <<connected, simulation, driver, props, pHist>>
     ELSE \E io1 \in PollTransport(simulation, OpI) :
          \E s1 \in {getStatus(Mem, simulation, io1, NoIO)} :
          \E io2 \in After(s1.x # <<>> /\ s1.x[1].ret, PollTransport(simulation, OpW)) :
          \E s \in {getStatus(Mem, simulation, io1, io2)} :
          \E io3 \in After(s.ret, PollTransport(simulation, OpT)) :
          \E io4 \in After(s.ret /\ StatusAbs(s.m.isMoving, FocusAbsPosNP_s) # "IDLE",
                         PollTransport(simulation, OpP)) :
          \E b \in {TimerBody(s, simulation, FocusAbsPosNP_s, currentPosition,
                              EnvironmentNP_s, EnvironmentN, scen, io3, io4)} :
                /\ SetMem(b.m)
                /\ FocusAbsPosNP_s' = b.abs
                /\ StatusSP_s' = b.status
                /\ EnvironmentNP_s' = b.envS
                /\ EnvironmentN' = b.envN
                /\ emitted' = AbsPosChanged(FocusAbsPosNP_s, currentPosition,
                                            b.abs, b.m.currentPosition)
                /\ timers' = SetTimer(timers - 1)
                /\ last' = Handler("TimerHit", Bool(s.ret), 0, "none")
                /\ xlog' = b.x
                /\ pHist' = PReads(pHist, b.p)
                /\ scen' = b.scen
                /\ UNCHANGED <<connected, simulation, FocusRelPosNP_s>>

(***************************************************************************)
(* Specification of the driver                                             *)
(***************************************************************************)
Next ==
  \/ Connect
  \/ Disconnect
  \/ \E ticks \in AbsTargets : MoveAbsFocuser(ticks)
  \/ \E dir \in {"INWARD", "OUTWARD"}, ticks \in RelTicks : MoveRelFocuser(dir, ticks)
  \/ \E position \in SyncValues : ISNewSwitch_Sync(position)
  \/ ISNewSwitch_Park
  \/ AbortFocuser
  \/ TimerHit

Spec == Init /\ [][Next]_vars

(***************************************************************************)
(* Specification of the device operations: one operation, called on a      *)
(* memory the driver can hold, under every transport behaviour.            *)
(***************************************************************************)
\* Contents of currentResponse at the call: as constructed, or a response
\* received before.
CallResponses ==
  InitResponses \cup {DeviceFrame(OpP, 100), DeviceFrame(OpM, 300032)}

\* Positions cached at the call
CallPositions == InitPositions \cup PPayloads

InitOps ==
  /\ connected = TRUE
  /\ simulation \in BOOLEAN
  /\ timers = 1
  /\ currentPosition \in CallPositions
  /\ isMoving \in BOOLEAN
  /\ isAbsolute \in BOOLEAN
  /\ currentTemperature \in InitFloats
  /\ currentHumidity \in InitFloats
  /\ currentResponse \in CallResponses
  /\ FocusAbsPosNP_s = "IDLE"
  /\ FocusRelPosNP_s = "IDLE"
  /\ StatusSP_s = "IDLE"
  /\ EnvironmentNP_s = "IDLE"
  /\ EnvironmentN = <<0, 0>>
  /\ last = Handler("none", "none", 0, "none")
  /\ xlog = <<>>
  /\ pHist = NoPReads
  /\ scen = NoScen
  /\ emitted = FALSE

\* The operation named op, with argument arg, returns r
Returns(op, arg, r) ==
  /\ last.op = "none"
  /\ SetMem(r.m)
  /\ last' = Handler(op, Bool(r.ret), arg, "none")
  /\ xlog' = r.x
  /\ UNCHANGED <<connected, simulation, timers, props, pHist, scen, emitted>>

Call_getPosition ==
  \E io \in AnyTransport(simulation, OpP, 0) :
    Returns("getPosition", 0, getPosition(Mem, simulation, io))

Call_getStatus ==
  \E io1 \in AnyTransport(simulation, OpI, 0), io2 \in AnyTransport(simulation, OpW, 0) :
    Returns("getStatus", 0, getStatus(Mem, simulation, io1, io2))

\* Further T responses getTemperature is called with: the frame
\* 4D 54 03 52 FF EC 00 DA, and the well-formed frame with the payload
\* 80 00 FF EC (raw humidity 0x8000, raw temperature 0xFFEC)
EnvironmentFrames ==
  {<<77, 84, 3, 82, 255, 236, 0, 218>>, DeviceFrame(OpT, -2147418132)}

Call_getTemperature ==
  \E io \in AnyTransport(simulation, OpT, 0)
              \cup (IF simulation THEN {}
                    ELSE {Reads(FrameSize, g) : g \in EnvironmentFrames}) :
    Returns("getTemperature", 0, getTemperature(Mem, simulation, io))

Call_setPosition(position) ==
  \E io \in AnyTransport(simulation, OpM, position) :
    Returns("setPosition", position, setPosition(Mem, simulation, position, io))

Call_setSync(position) ==
  \E io \in AnyTransport(simulation, OpZ, position) :
    Returns("setSync", position, setSync(Mem, simulation, position, io))

Call_setPark ==
  \E io \in AnyTransport(simulation, OpG, 0) :
    Returns("setPark", 0, setPark(Mem, simulation, io))

Call_AbortFocuser ==
  \E io \in AnyTransport(simulation, OpH, 0) :
    Returns("AbortFocuser", 0, abortFocuser(Mem, simulation, io))

\* dispatch_command(k, l) on its own
Call_dispatch_command(k, l) ==
  \E io \in AnyTransport(simulation, k, l) :
  \E d \in {dispatch_command(k, l, simulation, currentResponse, io)} :
    Returns("dispatch_command", k,
            [ret |-> d.ret, m |-> [Mem EXCEPT !.currentResponse = d.cr],
             x |-> <<Exchange(k, d, io)>>])

NextOps ==
  \/ Call_getPosition
  \/ Call_getStatus
  \/ Call_getTemperature
  \/ \E position \in SetTargets : Call_setPosition(position)
  \/ \E position \in SetTargets : Call_setSync(position)
  \/ Call_setPark
  \/ Call_AbortFocuser
  \/ \E k \in DispatchOps, l \in DispatchArgs : Call_dispatch_command(k, l)

SpecOps == InitOps /\ [][NextOps]_vars

(***************************************************************************)
(* Properties                                                              *)
(***************************************************************************)
TypeOK ==
  /\ timers \in 0..MaxTimers
  /\ FocusAbsPosNP_s \in {"IDLE", "OK", "BUSY", "ALERT"}
  /\ StatusSP_s \in {"IDLE", "OK", "ALERT"}
  /\ EnvironmentNP_s \in {"IDLE", "OK", "BUSY", "ALERT"}

DeviceOps ==
  {"getPosition", "getStatus", "getTemperature", "setPosition", "setSync",
   "setPark", "AbortFocuser"}

MotionCommands ==
  {"MoveAbsFocuser", "MoveRelFocuser", "ISNewSwitch_Sync", "ISNewSwitch_Park"}

\* The exchange failed at the transport: tty_write or tty_read reported an error.
TransportError(x) == x.wire /\ (~x.w \/ x.r = "err")

\* The last step made a successful P exchange and cached its payload.
CachedFromPRead ==
  /\ \E i \in DOMAIN xlog : xlog[i].k = OpP /\ xlog[i].ret
  /\ Payload(currentResponse) = currentPosition

\* t lies within [-MaxPosition, +MaxPosition].
InRange(t) == -MaxPositionN <= t /\ t <= MaxPositionN

\* pos + d in 32-bit two's-complement arithmetic, by cases on the overflow
Wrapped(pos, d) ==
  IF d >= 0 /\ pos > IntMax - d THEN (((pos - IntMax) - 1) + d) - IntMax - 1
  ELSE IF d < 0 /\ pos < (-IntMax - 1) - d THEN (((pos + IntMax) + 1) + d) + IntMax + 1
  ELSE pos + d

(* C1: every device operation that returns false leaves the cached device  *)
(* state (position, isMoving, isAbsolute, temperature, humidity) as it was *)
(* before the call, whatever the kind of the failure.                      *)
C1_FailedOperationKeepsCache ==
  [][(last'.op \in DeviceOps /\ last'.ret = "false") => Cache' = Cache]_vars

(* C2: the cached position changes only by a position read, to the value   *)
(* read: outside simulation the payload of a successful P exchange, in     *)
(* simulation simulatedPosition, which Connect and the getPosition of a    *)
(* tick assign (it is the initial value there).  An absolute move, a       *)
(* relative move, a sync, a park and an abort never change it, whether     *)
(* they succeed or fail: it is never the commanded target.                 *)
C2_PositionFromPReadOrSimulation ==
  [][/\ currentPosition' # currentPosition
          => \/ ~simulation /\ CachedFromPRead'
             \/ /\ simulation
                /\ last'.op \in {"Connect", "TimerHit"}
                /\ currentPosition' = simulatedPosition
     /\ last'.op \in MotionCommands \cup {"AbortFocuser"}
          => currentPosition' = currentPosition]_vars

\* C2 happens: an absolute move succeeded and the cached position is still
\* the payload of the last P read, not the target.
C2_Witness ==
  /\ last.op = "MoveAbsFocuser" /\ last.ret = "OK"
  /\ pHist.seen /\ currentPosition = pHist.last
  /\ currentPosition # last.arg

(* C3: after an absolute move, a relative move, a sync or a park returned  *)
(* success, FocusAbsPosNP.s is OK, whatever it was before.                 *)
C3_MotionCommandSetsAbsOk ==
  (last.op \in MotionCommands /\ last.ret = "OK") => FocusAbsPosNP_s = "OK"

(* C4: no M frame whose target lies outside [-MaxPosition, +MaxPosition]   *)
(* is written to the transport, for an absolute or a relative move.        *)
C4_OutOfRangeTargetNotWritten ==
  \A i \in DOMAIN xlog :
    (xlog[i].k = OpM /\ xlog[i].wire) => InRange(Payload(xlog[i].out[1]))

(* C5, as stated: after a tick whose exchanges fail with a transport error *)
(* FocusAbsPosNP.s, EnvironmentNP.s and StatusSP.s are all ALERT.          *)
C5_TransportFailureAllAlert ==
  (/\ last.op = "TimerHit" /\ xlog # <<>>
   /\ \A i \in DOMAIN xlog : TransportError(xlog[i]))
    => /\ FocusAbsPosNP_s = "ALERT"
       /\ EnvironmentNP_s = "ALERT"
       /\ StatusSP_s = "ALERT"

(* C5, amended: a transport error raises the status of the read it hits.   *)
(* A tick whose status read (I or W) fails with a transport error sets     *)
(* StatusSP.s to ALERT and leaves FocusAbsPosNP.s and EnvironmentNP.s as   *)
(* they were; a T exchange that fails so sets EnvironmentNP.s to ALERT, a  *)
(* P exchange that fails so sets FocusAbsPosNP.s to ALERT.                 *)
C5_TransportFailureAlertsItsStatus ==
  [][last'.op = "TimerHit" =>
       \A i \in DOMAIN xlog' :
         TransportError(xlog'[i]) =>
           /\ xlog'[i].k \in {OpI, OpW} =>
                /\ StatusSP_s' = "ALERT"
                /\ FocusAbsPosNP_s' = FocusAbsPosNP_s
                /\ EnvironmentNP_s' = EnvironmentNP_s
           /\ xlog'[i].k = OpT => EnvironmentNP_s' = "ALERT"
           /\ xlog'[i].k = OpP => FocusAbsPosNP_s' = "ALERT"]_vars

\* C5 happens: the I exchange of a tick failed at the transport; only
\* StatusSP.s is ALERT.
C5_Witness ==
  /\ last.op = "TimerHit" /\ xlog # <<>>
  /\ xlog[1].k = OpI /\ TransportError(xlog[1])
  /\ StatusSP_s = "ALERT"
  /\ FocusAbsPosNP_s # "ALERT" /\ EnvironmentNP_s # "ALERT"

\* The last step was a tick all of whose four reads succeeded.
AllReadsSucceeded ==
  /\ last.op = "TimerHit"
  /\ Len(xlog) = 4
  /\ \A i \in DOMAIN xlog : xlog[i].ret

(* C6, as stated: a tick in which every read succeeds and the position is  *)
(* read ends with FocusAbsPosNP.s = BUSY if the position read differs from *)
(* the position cached at the start of the tick and OK if it is equal;     *)
(* three consecutive ticks with I responses d = 1, 1, 0 and P responses    *)
(* 100, 200, 200 give BUSY, BUSY, OK.                                      *)
C6_PollingStatusSequence ==
  [][/\ AllReadsSucceeded' =>
          FocusAbsPosNP_s' = (IF currentPosition' # currentPosition
                              THEN "BUSY" ELSE "OK")
     /\ scen'.n = 3 => scen'.hist = <<"BUSY", "BUSY", "OK">>]_vars

(* C6, amended: the same, the three ticks starting from a cached position  *)
(* other than 100.                                                         *)
C6_PollingStatusSequenceFromOther ==
  [][/\ AllReadsSucceeded' =>
          FocusAbsPosNP_s' = (IF currentPosition' # currentPosition
                              THEN "BUSY" ELSE "OK")
     /\ (scen'.n = 3 /\ scen'.start # 100)
          => scen'.hist = <<"BUSY", "BUSY", "OK">>]_vars

\* C6 happens: the three ticks have run, from a cached position other than 100.
C6_Witness ==
  /\ scen.n = 3 /\ scen.start # 100
  /\ scen.hist = <<"BUSY", "BUSY", "OK">>
  /\ FocusAbsPosNP_s = "OK" /\ currentPosition = 200

(* C7: FocusAbsPosNP.s = BUSY implies that isMoving was true in the most   *)
(* recent successful I response or that the most recent successful P read  *)
(* differed from the successful P read before it.                          *)
C7_BusyImpliesMotionObserved ==
  FocusAbsPosNP_s = "BUSY" => (isMoving \/ pHist.delta)

(* C8: MoveRelFocuser(dir, n) makes exactly one exchange, an M frame whose *)
(* payload is the position cached before the call plus n (OUTWARD) or      *)
(* minus n (INWARD) in 32-bit two's-complement arithmetic; no P read is    *)
(* made first and the frame is handed to the transport unless simulated.   *)
C8_RelativeTargetFromCache ==
  [][last'.op = "MoveRelFocuser" =>
       /\ Len(xlog') = 1
       /\ xlog'[1].k = OpM
       /\ xlog'[1].out =
            <<RequestFrame(OpM, Wrapped(currentPosition,
                                        IF last'.dir = "INWARD" THEN -last'.arg
                                        ELSE last'.arg))>>
       /\ xlog'[1].wire = ~simulation]_vars

\* C8 happens: a relative move from the position 100 read by P wrote the
\* target -60, and one from the largest position wrapped around.
C8_Witness ==
  /\ last.op = "MoveRelFocuser" /\ Len(xlog) = 1 /\ xlog[1].wire
  /\ \/ /\ last.dir = "INWARD" /\ pHist.seen /\ pHist.last = 100
        /\ Payload(xlog[1].out[1]) = -60
     \/ /\ last.dir = "OUTWARD" /\ currentPosition = IntMax
        /\ Payload(xlog[1].out[1]) < 0

(* C9: setPosition and setSync return true exactly when the exchange       *)
(* succeeded and the payload a..d of the response equals the value sent,   *)
(* also for negative values; a response with the right opcode and another  *)
(* payload makes them return false.                                        *)
C9_SuccessIffEcho ==
  last.op \in {"setPosition", "setSync"} =>
    (last.ret = "true" <=>
       (xlog[1].ret /\ Payload(currentResponse) = last.arg))

\* C9 happens: setSync(-32) returned true on the echo of -32.
C9_Witness ==
  /\ last.op = "setSync" /\ last.arg = -32 /\ last.ret = "true"
  /\ ~simulation
  /\ currentResponse = DeviceFrame(OpZ, -32)

(* C10: outside simulation dispatch_command(k, l) returns true exactly     *)
(* when the request was written, eight bytes were read without error, the  *)
(* checksum of the response is valid and its opcode is k.                  *)
C10_DispatchSuccess ==
  (~simulation /\ last.op # "none") =>
    LET x == xlog[Len(xlog)] IN
    x.ret <=> /\ x.w
              /\ x.r = "ok"
              /\ x.n = FrameSize
              /\ calculate_checksum(currentResponse) = currentResponse[8]
              /\ currentResponse[2] = x.k
              /\ currentResponse[2] \notin {OpUnknownCmd, OpBadChecksum}

\* C10 happens: dispatch_command('V') returned true outside simulation.
C10_Witness ==
  /\ ~simulation
  /\ last.op = "dispatch_command" /\ last.arg = OpV /\ last.ret = "true"

(* C11: in simulation, the position read that follows a successful sync(x) *)
(* (the getPosition of the next tick, FocusAbsPosNP.s being OK) leaves the *)
(* cached position equal to x.                                             *)
C11_SimulatedSyncThenReadPosition ==
  [][(/\ simulation
      /\ last.op = "ISNewSwitch_Sync" /\ last.ret = "OK"
      /\ last'.op = "TimerHit" /\ last'.ret = "true")
       => currentPosition' = last.arg]_vars

(* C12: in simulation the response left in currentResponse by the exchange *)
(* of setPosition(x) or setSync(x) is a well-formed reply: its opcode is   *)
(* the opcode sent, its payload is x, so that the operation succeeds, and  *)
(* its checksum byte is the sum mod 256 of its first seven bytes.          *)
C12_SimulatedResponseWellFormed ==
  (simulation /\ last.op \in {"setPosition", "setSync"}) =>
    /\ currentResponse[2] = xlog[1].k
    /\ Payload(currentResponse) = last.arg
    /\ last.ret = "true"
    /\ currentResponse[8] = calculate_checksum(currentResponse)

(* C13: after every successful Connect FocusAbsPosNP.s is IDLE,            *)
(* EnvironmentNP.s is OK, StatusSP.s is OK and no position read by P is    *)
(* held in the cache.                                                      *)
C13_StateAfterConnect ==
  (last.op = "Connect" /\ last.ret = "true") =>
    /\ FocusAbsPosNP_s = "IDLE"
    /\ EnvironmentNP_s = "OK"
    /\ StatusSP_s = "OK"
    /\ ~pHist.seen

(* C14: Disconnect makes exactly one abort exchange (the H frame), then    *)
(* closes the transport, and returns true with the connection closed,      *)
(* whether the abort succeeded or failed.                                  *)
C14_DisconnectAbortsThenCloses ==
  last.op = "Disconnect" =>
    /\ Len(xlog) = 2
    /\ xlog[1].k = OpH
    /\ xlog[1].out = <<RequestFrame(OpH, 0)>>
    /\ xlog[1].wire = ~simulation
    /\ xlog[2] = tty_disconnect
    /\ last.ret = "true"
    /\ ~connected

\* C14 happens: the device refused the abort and Disconnect closed the
\* transport all the same.
C14_Witness ==
  /\ last.op = "Disconnect" /\ last.ret = "true" /\ ~connected
  /\ ~simulation /\ xlog[1].k = OpH /\ xlog[1].wire /\ ~xlog[1].ret
  /\ xlog[Len(xlog)] = tty_disconnect

(* C15, as stated: setPosition(-32) hands the transport exactly the frame  *)
(* 4D 4D FF FF FF E0 00 95.                                                *)
C15_MoveFrameChecksum95 ==
  (last.op = "setPosition" /\ last.arg = -32 /\ xlog[1].wire)
    => xlog[1].out = << <<77, 77, 255, 255, 255, 224, 0, 149>> >>

(* C15, amended: setPosition(-32) hands the transport exactly the frame    *)
(* 4D 4D FF FF FF E0 00 77: the checksum byte of the frame for opcode M    *)
(* and payload -32 is 0x77.                                                *)
C15_MoveFrameChecksum77 ==
  (last.op = "setPosition" /\ last.arg = -32 /\ xlog[1].wire)
    => xlog[1].out = << <<77, 77, 255, 255, 255, 224, 0, 119>> >>

\* C15 happens: the frame for -32 was written and echoed.
C15_Witness ==
  /\ last.op = "setPosition" /\ last.arg = -32 /\ last.ret = "true"
  /\ xlog[1].wire /\ xlog[1].w
  /\ xlog[1].out[1][8] = 119

(* C16, as stated: getTemperature that receives the eight bytes            *)
(* 4D 54 03 52 FF EC 00 DA returns true with the humidity 85.0 and the     *)
(* temperature 271.15.                                                     *)
C16_EnvironmentFrameDA ==
  (/\ last.op = "getTemperature" /\ ~simulation
   /\ xlog[1].r = "ok" /\ xlog[1].n = FrameSize
   /\ currentResponse = <<77, 84, 3, 82, 255, 236, 0, 218>>)
    => /\ last.ret = "true"
       /\ currentHumidity = 850
       /\ currentTemperature = 27115

(* C16, amended: getTemperature that receives the eight bytes              *)
(* 4D 54 03 52 FF EC 00 E1 returns true with the humidity 85.0 and the     *)
(* temperature 271.15.                                                     *)
C16_EnvironmentFrameE1 ==
  (/\ last.op = "getTemperature" /\ ~simulation
   /\ xlog[1].r = "ok" /\ xlog[1].n = FrameSize
   /\ currentResponse = <<77, 84, 3, 82, 255, 236, 0, 225>>)
    => /\ last.ret = "true"
       /\ currentHumidity = 850
       /\ currentTemperature = 27115

\* C16 happens: the frame ending in E1 was received and decoded.
C16_Witness ==
  /\ last.op = "getTemperature" /\ ~simulation /\ last.ret = "true"
  /\ xlog[1].r = "ok" /\ xlog[1].n = FrameSize
  /\ currentResponse = <<77, 84, 3, 82, 255, 236, 0, 225>>
  /\ currentHumidity = 850 /\ currentTemperature = 27115

(* C17: after a successful T exchange the humidity is the unsigned 16-bit  *)
(* value (a<<8)|b, in tenths, never negative, and the temperature is the   *)
(* signed 16-bit value (c<<8)|d divided by 10 plus 273.15.                 *)
C17_HumidityUnsignedTemperatureSigned ==
  (last.op = "getTemperature" /\ ~simulation /\ last.ret = "true") =>
    /\ currentHumidity = currentResponse[3] * 256 + currentResponse[4]
    /\ currentHumidity >= 0
    /\ currentTemperature =
         Short16(currentResponse[5], currentResponse[6]) * 10 + KelvinOffset

(* C18: a tick whose status read fails (getStatus returns false at the I   *)
(* or at the W exchange) sets StatusSP.s to ALERT, makes no T and no P     *)
(* exchange and leaves FocusAbsPosNP.s, EnvironmentNP.s, the cached        *)
(* position, the cached temperature and humidity and the published         *)
(* EnvironmentN values as they were before the tick.                       *)
C18_FailedStatusReadFrame ==
  [][(last'.op = "TimerHit" /\ last'.ret = "false") =>
       /\ StatusSP_s' = "ALERT"
       /\ xlog' # <<>>
       /\ ~xlog'[Len(xlog')].ret
       /\ \A i \in DOMAIN xlog' : xlog'[i].k \in {OpI, OpW}
       /\ UNCHANGED <<FocusAbsPosNP_s, EnvironmentNP_s, currentPosition,
                      currentTemperature, currentHumidity, EnvironmentN>>]_vars

\* C18 happens: the W exchange of a tick failed while FocusAbsPosNP.s was
\* BUSY and the environment had been published.
C18_Witness ==
  /\ last.op = "TimerHit" /\ last.ret = "false"
  /\ Len(xlog) = 2 /\ xlog[2].k = OpW /\ ~xlog[2].ret
  /\ StatusSP_s = "ALERT"
  /\ FocusAbsPosNP_s = "BUSY"
  /\ EnvironmentNP_s \in {"OK", "BUSY"}
  /\ pHist.seen

\* The place of an opcode in the order I, W, T, P of a tick
Rank(k) ==
  IF k = OpI THEN 1 ELSE IF k = OpW THEN 2 ELSE IF k = OpT THEN 3
  ELSE IF k = OpP THEN 4 ELSE 0

(* C19: the exchanges of a tick are I, W, T, P in this order, each at most *)
(* once and each with one request frame; a T exchange that fails sets      *)
(* EnvironmentNP.s to ALERT and the P exchange of the same tick is made    *)
(* all the same (FocusAbsPosNP.s not being IDLE after the motion step);    *)
(* a move, a sync, a park and an abort make one exchange with at most one  *)
(* request frame, also when they fail.                                     *)
C19_OneExchangeEachInOrder ==
  [][/\ last'.op = "TimerHit" =>
          /\ \A i \in DOMAIN xlog' :
               Rank(xlog'[i].k) > 0 /\ Len(xlog'[i].out) = 1
          /\ \A i, j \in DOMAIN xlog' :
               i < j => Rank(xlog'[i].k) < Rank(xlog'[j].k)
          /\ \A i \in DOMAIN xlog' :
               (xlog'[i].k = OpT /\ ~xlog'[i].ret) =>
                 /\ EnvironmentNP_s' = "ALERT"
                 /\ (isMoving' \/ FocusAbsPosNP_s # "IDLE")
                      => \E j \in DOMAIN xlog' : xlog'[j].k = OpP
     /\ last'.op \in MotionCommands \cup {"AbortFocuser"} =>
          /\ Len(xlog') = 1
          /\ Len(xlog'[1].out) <= 1]_vars

\* C19 happens: the T exchange of a tick failed and its P exchange succeeded.
C19_Witness ==
  /\ last.op = "TimerHit" /\ Len(xlog) = 4
  /\ xlog[3].k = OpT /\ ~xlog[3].ret
  /\ xlog[4].k = OpP /\ xlog[4].ret
  /\ EnvironmentNP_s = "ALERT"
  /\ FocusAbsPosNP_s \in {"OK", "BUSY"}

(* C20: every request frame an operation builds is the encoding of its     *)
(* opcode and argument: byte 0 is 0x4D, byte 1 the opcode, bytes 2..5 the  *)
(* argument big-endian for M and Z, zero for H, P, I, T, W, G, V, and      *)
(* 0, 0, 0 and the low byte of the argument for R, byte 6 is 0 and byte 7  *)
(* the sum of bytes 0..6 mod 256; for an opcode outside this table no      *)
(* frame is built, nothing is written and the command fails.               *)
C20_RequestFrameEncoding ==
  \A i \in DOMAIN xlog :
    LET k == xlog[i].k
        F == xlog[i].out
    IN  IF k \in {OpM, OpZ, OpH, OpP, OpI, OpT, OpW, OpG, OpV, OpR}
        THEN /\ Len(F) = 1
             /\ F[1][1] = 77 /\ F[1][2] = k /\ F[1][7] = 0
             /\ F[1][8] = (F[1][1] + F[1][2] + F[1][3] + F[1][4] + F[1][5]
                           + F[1][6] + F[1][7]) % 256
             /\ k \in {OpM, OpZ} =>
                  /\ Word32(F[1][3], F[1][4], F[1][5], F[1][6]) = last.arg
                  /\ last.arg = 300032 => <<F[1][3], F[1][4], F[1][5], F[1][6]>> = <<0, 4, 148, 0>>
             /\ k \in {OpH, OpP, OpI, OpT, OpW, OpG, OpV} =>
                  <<F[1][3], F[1][4], F[1][5], F[1][6]>> = <<0, 0, 0, 0>>
             /\ k = OpR =>
                  /\ <<F[1][3], F[1][4], F[1][5]>> = <<0, 0, 0>>
                  /\ \E l \in DispatchArgs : F[1][6] = l % 256
             /\ xlog[i].wire = ~simulation
        ELSE /\ F = <<>>
             /\ ~xlog[i].wire
             /\ ~xlog[i].ret
             /\ last.ret = "false"

\* C20 happens: setPosition(300032) wrote 4D 4D 00 04 94 00 00 32.
C20_Witness ==
  /\ last.op = "setPosition" /\ last.arg = 300032
  /\ xlog[1].wire /\ xlog[1].w
  /\ xlog[1].out = << <<77, 77, 0, 4, 148, 0, 0, 50>> >>

\* The outcome of an exchange by the precedence of the claim, from what the
\* transport delivered (r, n) and the eight bytes g received for request k
Classified(k, r, n, g) ==
  IF r # "ok" THEN "IO_READ"
  ELSE IF n < 8 THEN "MALFORMED"
  ELSE IF g[8] # (g[1] + g[2] + g[3] + g[4] + g[5] + g[6] + g[7]) % 256
  THEN "BAD_CHECKSUM"
  ELSE IF g[2] = 33 THEN "DEVICE_UNKNOWN_CMD"
  ELSE IF g[2] = 63 THEN "DEVICE_BAD_CHECKSUM"
  ELSE IF g[2] # k THEN "OPCODE_MISMATCH"
  ELSE "none"

(* C21: outside simulation the response to a request that was written is   *)
(* classified in this precedence: a failed or short read (fewer than 8     *)
(* bytes) is a read failure / MALFORMED; else a wrong checksum byte is     *)
(* BAD_CHECKSUM; else opcode '!' is DEVICE_UNKNOWN_CMD and '?' is          *)
(* DEVICE_BAD_CHECKSUM; else an opcode other than the request's is         *)
(* OPCODE_MISMATCH; the exchange succeeds exactly when none applies, so a  *)
(* sentinel with a valid checksum is neither OPCODE_MISMATCH nor success.  *)
C21_ResponseClassification ==
  (~simulation /\ last.op # "none") =>
    LET x == xlog[Len(xlog)] IN
    (x.wire /\ x.w) =>
      /\ x.err = Classified(x.k, x.r, x.n, currentResponse)
      /\ x.ret <=> x.err = "none"
      /\ (/\ x.r = "ok" /\ x.n = 8
          /\ currentResponse[2] \in {33, 63}
          /\ currentResponse[8] = calculate_checksum(currentResponse))
           => /\ ~x.ret
              /\ x.err = (IF currentResponse[2] = 33 THEN "DEVICE_UNKNOWN_CMD"
                          ELSE "DEVICE_BAD_CHECKSUM")

\* C21 happens: a '!' response with a wrong checksum byte was classified
\* BAD_CHECKSUM.
C21_Witness ==
  /\ ~simulation /\ last.op = "getPosition" /\ last.ret = "false"
  /\ xlog[1].r = "ok" /\ xlog[1].n = 8
  /\ currentResponse[2] = 33
  /\ currentResponse[8] # calculate_checksum(currentResponse)
  /\ xlog[1].err = "BAD_CHECKSUM"

(* C22: a tick that starts with FocusAbsPosNP.s = IDLE and in which the    *)
(* device reports not moving, or the status read fails (or the driver is   *)
(* disconnected), makes no P exchange, leaves the cached position as it    *)
(* was, sends no FocusAbsPosNP update and ends with FocusAbsPosNP.s =      *)
(* IDLE; so it does for every such tick of a run.                          *)
C22_IdleStaysIdle ==
  [][(/\ last'.op = "TimerHit"
      /\ FocusAbsPosNP_s = "IDLE"
      /\ (last'.ret # "true" \/ ~isMoving'))
       => /\ \A i \in DOMAIN xlog' : xlog'[i].k # OpP
          /\ currentPosition' = currentPosition
          /\ ~emitted'
          /\ FocusAbsPosNP_s' = "IDLE"]_vars

\* C22 happens: a tick read I (not moving), W and T with FocusAbsPosNP.s
\* IDLE, after another tick had published the same environment.
C22_Witness ==
  /\ last.op = "TimerHit" /\ last.ret = "true" /\ ~simulation
  /\ Len(xlog) = 3 /\ xlog[1].k = OpI /\ xlog[1].ret /\ ~isMoving
  /\ xlog[3].k = OpT /\ xlog[3].ret
  /\ FocusAbsPosNP_s = "IDLE" /\ ~emitted /\ ~pHist.seen
  /\ EnvironmentNP_s = "OK"

(* C23: at most one poll timer is pending at any time, whatever the        *)
(* sequence of Connect, Disconnect and TimerHit.                           *)
C23_AtMostOneTimer ==
  timers <= 1

=============================================================================
